---- MODULE Spec2Model ----
(***************************************************************************)
(* A model of the Delve JSON-RPC client (lib/delve.js, lib/types,          *)
(* lib/errors.js).  JavaScript values are tagged records [t, v] so that an *)
(* empty array, an empty object, null and undefined stay distinct, and a   *)
(* promise is the outcome it settles with.                                 *)
(***************************************************************************)
EXTENDS Integers, Sequences, FiniteSets, TLC

VARIABLES
  rpcClient,   \* this.rpcClient: the connection handle calls are sent on
  sent,        \* every RPC handed to rpcClient.callAsync, with its promise
  calls,       \* every invocation of a public operation, with the promise it returned
  decoded,     \* the last application of types.Breakpoint.decodeBreakpoint
  upgrades     \* every invocation of establishSocketConn, with the promise it returned

vars == <<rpcClient, sent, calls, decoded, upgrades>>

(***************************************************************************)
(* JavaScript values                                                       *)
(***************************************************************************)
Undefined == [t |-> "undefined", v |-> 0]
Null      == [t |-> "null", v |-> 0]
Bool(b)   == [t |-> "boolean", v |-> b]
Num(n)    == [t |-> "number", v |-> n]
Str(s)    == [t |-> "string", v |-> s]
Arr(s)    == [t |-> "array", v |-> s]
Obj(f)    == [t |-> "object", v |-> f]
EmptyObj  == Obj(<<>>)
EmptyArr  == Arr(<<>>)

\* ToBoolean: what `a || b` and `if (a)` test
Truthy(x) ==
  CASE x.t \in {"undefined", "null"} -> FALSE
    [] x.t = "boolean" -> x.v
    [] x.t = "number"  -> x.v # 0
    [] x.t = "string"  -> x.v # ""
    [] OTHER -> TRUE

\* a || b
JsOr(a, b) == IF Truthy(a) THEN a ELSE b

\* o.k on an object: an absent property reads as undefined
Get(o, k) == IF o.t = "object" /\ k \in DOMAIN o.v THEN o.v[k] ELSE Undefined

\* o.k throws a TypeError when o is null or undefined
Nullish(x) == x.t \in {"undefined", "null"}

\* how a function body ends
Return(x) == [c |-> "return", v |-> x]
Throw(e)  == [c |-> "throw", v |-> e]

\* how a promise stands
Pending      == [st |-> "pending", v |-> Undefined]
Fulfilled(x) == [st |-> "fulfilled", v |-> x]
Rejected(e)  == [st |-> "rejected", v |-> e]

\* the function threw before it returned a promise
Threw(e)     == [st |-> "threw", v |-> e]

(***************************************************************************)
(* Errors                                                                  *)
(***************************************************************************)
\* an Error instance: its constructor, its name, its message and its own fields
ErrV(cls, name, msg, props) ==
  [t |-> "error", v |-> [cls |-> cls, name |-> name, message |-> msg, props |-> props]]

IsErr(x, cls) == x.t = "error" /\ x.v.cls = cls

\* err.k: an own field of an error, undefined when it has none of that name
ErrGet(e, k) == IF e.t = "error" /\ k \in DOMAIN e.v.props THEN e.v.props[k] ELSE Undefined

\* errors of the language itself
TypeError(msg)      == ErrV("TypeError", "TypeError", <<msg>>, <<>>)
ReferenceError(msg) == ErrV("ReferenceError", "ReferenceError", <<msg>>, <<>>)

\* json-rpc2's Error.ServerError: the fault a server reports
ServerError(fault) == ErrV("ServerError", "ServerError", <<fault>>, [code |-> Num(-32000)])

\* a failure of the transport: not a ServerError
TransportError == ErrV("Error", "Error", <<"connect ECONNREFUSED">>, <<>>)

DelveErr == "DelveError"

\* setName(v): this.name = `${DelveErr}${v}`
setName(v) == <<DelveErr, v>>

\* the classes lib/errors.js exports
ErrorExports ==
  {"BaseError", "DelveConnError", "DelveServerError", "MalformedLocationError",
   "MalformedBreakpointError"}

DelveServerError(err) ==
  ErrV("DelveServerError", setName("DelveServerError"),
       <<"Delve reported error: ", err>>, [error |-> err])

MalformedLocationError(locationArg, err) ==
  ErrV("MalformedLocationError", setName("MalformedLocationError"),
       <<"Invalid location pattern: ", locationArg>>, [error |-> err])

MalformedBreakpointError(ogErr) ==
  ErrV("MalformedBreakpointError", setName("MalformedBreakpointError"),
       <<"Error creating breakpoint: ", ogErr>>, [parseError |-> ogErr])

\* new DelveError.<cls>(arg) evaluated in a module whose top-level names are
\* `scope`: an unbound DelveError is a ReferenceError, a class the errors module
\* does not export is undefined and `new undefined` is a TypeError
NewDelveError(scope, cls, a, b) ==
  IF "DelveError" \notin scope
    THEN ReferenceError("DelveError is not defined")
  ELSE IF cls \notin ErrorExports
    THEN ErrV("TypeError", "TypeError", <<"DelveError.", cls, " is not a constructor">>, <<>>)
  ELSE CASE cls = "DelveServerError"         -> DelveServerError(a)
         [] cls = "MalformedLocationError"   -> MalformedLocationError(a, b)
         [] cls = "MalformedBreakpointError" -> MalformedBreakpointError(a)
         [] OTHER -> ErrV(cls, setName(cls), <<a>>, <<>>)

(***************************************************************************)
(* lib/types: Breakpoint.decodeBreakpoint and Scope.makeScope              *)
(***************************************************************************)
\* the top-level names of the types module: it never requires ../errors
TypesScope == {"types", "module", "exports"}

\* the top-level names of lib/delve.js
DelveScope == {"Promise", "RPC", "RPCError", "types", "DelveError", "Delve"}

\* the object literal of decodeBreakpoint, for a payload that is an object
newBreakpoint(bp) ==
  Obj([id            |-> Get(bp, "id"),
       name          |-> Get(bp, "name"),
       location      |-> Obj([addr         |-> Get(bp, "addr"),
                              file         |-> Get(bp, "file"),
                              line         |-> Get(bp, "line"),
                              functionName |-> JsOr(Get(bp, "functionName"), Null),
                              goroutine    |-> Get(bp, "goroutine")]),
       condition     |-> Get(bp, "Cond"),
       continue      |-> Get(bp, "continue"),
       stacktrace    |-> Get(bp, "stacktrace"),
       variables     |-> JsOr(Get(bp, "variables"), EmptyArr),
       hitCount      |-> JsOr(Get(bp, "hitCount"), EmptyArr),
       totalHitCount |-> JsOr(Get(bp, "totalHitCount"), Num(0))])

\* try { ...bp.id... return newBreakpoint } catch (err) { throw new
\* DelveError.MalformedBreakpointError(err) }: only reading a property of null
\* or undefined throws inside the try
decodeBreakpoint(bp) ==
  IF Nullish(bp)
    THEN Throw(NewDelveError(TypesScope, "MalformedBreakpointError",
                             TypeError("Cannot read property 'id'"), Undefined))
    ELSE Return(newBreakpoint(bp))

makeScope(GoroutineID, Frame) == Obj([GoroutineID |-> GoroutineID, Frame |-> Frame])

DebuggerCommands ==
  [continue |-> "continue", step |-> "step", stepInstruction |-> "stepInstruction",
   next |-> "next", halt |-> "halt", switchThread |-> "switchThread",
   switchGoroutine |-> "switchGoroutine"]

(***************************************************************************)
(* Bounds and the values the caller and the server may supply              *)
(***************************************************************************)
MaxCalls == 1    \* invocations of public operations in one run
MaxLocs  == 2    \* locations a FindLocation result may hold
MaxUpgrades == 2 \* invocations of establishSocketConn in one run

BreakpointIds   == {Num(1), Num(999)}
BreakpointNames == {Str("bp1")}
Patterns        == {Str("main.go:10"), Str("bad::pattern")}
Faults          == {"not found", "internal error"}
ThreadIds       == {Num(7)}

\* a location as the server reports it
Location(pc) == Obj([pc |-> Num(pc), file |-> Str("main.go"), line |-> Num(10)])

\* FindLocation results: n locations, not in address order
LocationLists == {Arr([k \in 1..n |-> Location(n + 1 - k)]) : n \in 0..MaxLocs}

\* a breakpoint as the server reports it, every field present
FullBp(id, name, addr) ==
  Obj([id |-> id, name |-> name, addr |-> addr, file |-> Str("main.go"),
       line |-> Num(10), functionName |-> Str("main.main"), Cond |-> Str(""),
       continue |-> Bool(FALSE), goroutine |-> Bool(FALSE), stacktrace |-> Num(0),
       variables |-> Arr(<<Str("x")>>), hitCount |-> Obj([g1 |-> Num(3)]),
       totalHitCount |-> Num(3)])

\* the same without the fields the server omits when they are empty
SparseBp(id, name, addr) ==
  Obj([id |-> id, name |-> name, addr |-> addr, file |-> Str("main.go"),
       line |-> Num(10), continue |-> Bool(FALSE), goroutine |-> Bool(FALSE),
       stacktrace |-> Num(0)])

\* a thread as the server reports it
Thread(id) ==
  Obj([id |-> id, pc |-> Num(4198), file |-> Str("main.go"), line |-> Num(10)])

RunningState    == Obj([exited |-> Bool(FALSE), exitStatus |-> Num(0)])
ExitedState(n)  == Obj([exited |-> Bool(TRUE), exitStatus |-> Num(n)])
DebuggerStates  == {RunningState, ExitedState(0), ExitedState(2)}

(***************************************************************************)
(* Promises: a handler chain applied to a settled promise                  *)
(***************************************************************************)
\* the promise a handler's completion settles
FromCompletion(c) == IF c.c = "return" THEN Fulfilled(c.v) ELSE Rejected(c.v)

\* p.then(f), c being the completion of f(p.v): f runs on fulfilment, a
\* rejection passes through; a second argument that is no function (`false`)
\* installs nothing
Then(p, c) == IF p.st = "fulfilled" THEN FromCompletion(c) ELSE p

\* p.catch(f), c being the completion of f(p.v): f runs on every rejection
CatchAll(p, c) == IF p.st = "rejected" THEN FromCompletion(c) ELSE p

\* p.catch(Class, f): f runs on a rejection that is an instance of Class
CatchClass(p, cls, c) ==
  IF p.st = "rejected" /\ IsErr(p.v, cls) THEN FromCompletion(c) ELSE p

(***************************************************************************)
(* Delve: the constructor and the call primitive                           *)
(***************************************************************************)
methodPrefix == "RPCServer"

\* the handle the constructor opens
BasicHandle == [t |-> "client", v |-> 0]

\* Promise.promisifyAll(conn), conn the connection of the k-th establishSocketConn
SocketHandle(k) == [t |-> "connection", v |-> k]

\* the process ended on an uncaught socket error
Crashed == \E k \in DOMAIN upgrades : upgrades[k].st = "crashed"

\* whether an upgrade has replaced this.rpcClient
Upgraded == \E k \in DOMAIN upgrades : upgrades[k].st = "ready"

\* let wrapError = _wrapError || true
wrapErrorOf(_wrapError) == JsOr(_wrapError, Bool(TRUE))

\* err => { throw new DelveError.DelveServerError(err); }
wrapServerErr(err) == Throw(NewDelveError(DelveScope, "DelveServerError", err, Undefined))

\* the promise of p.catch(RPCError.ServerError, ...), which _makeCall drops
derivedOf(wrapError, p) ==
  IF Truthy(wrapError) THEN CatchClass(p, "ServerError", wrapServerErr(p.v)) ELSE p

\* the promise _makeCall returns to its caller
returnedOf(wrapError, p) == p

\* (a call primitive that kept using the handle the constructor opened)
_makeCallOnFirstHandle(method, args, _wrapError) ==
  [method    |-> <<methodPrefix, method>>,
   args      |-> args,
   handle    |-> BasicHandle,
   given     |-> _wrapError,
   wrapError |-> wrapErrorOf(_wrapError),
   installed |-> Truthy(wrapErrorOf(_wrapError)),
   p         |-> Pending,
   derived   |-> Pending]

\* _makeCall(method, args, _wrapError): the call handed to rpcClient.callAsync,
\* p its promise, derived the promise of the p.catch it may install (given:
\* the third argument as the caller passed it)
_makeCall(method, args, _wrapError) ==
  [method    |-> <<methodPrefix, method>>,
   args      |-> args,
   handle    |-> rpcClient,
   given     |-> _wrapError,
   wrapError |-> wrapErrorOf(_wrapError),
   installed |-> Truthy(wrapErrorOf(_wrapError)),
   p         |-> Pending,
   derived   |-> Pending]

\* a call on the wire: the invocation that made it and its place in it (0 for
\* the first call, k for the call of createBreakpoints' k-th location)
\* (upgraded: whether an upgrade had completed when the call was made)
Wire(inv, slot, rpc) == [inv |-> inv, slot |-> slot, rpc |-> rpc, upgraded |-> Upgraded]

\* an invocation of a public operation and the promise it returned
\* (parts: the promises of createBreakpoints' elements; arrived: the order they
\* settled in)
Invocation(op, args) ==
  [op |-> op, args |-> args, promise |-> Pending, parts |-> <<>>, arrived |-> <<>>]

(***************************************************************************)
(* Delve: what each public operation chains on the promise of its call     *)
(***************************************************************************)
\* state => { if (state.exited) throw new DelveError.DebuggerExited(state); return state; }
continueThen(state) ==
  IF Nullish(state)
    THEN Throw(TypeError("Cannot read property 'exited'"))
  ELSE IF Truthy(Get(state, "exited"))
    THEN Throw(NewDelveError(DelveScope, "DebuggerExited", state, Undefined))
  ELSE Return(state)

continueToNextBreakpointPromise(p) == Then(p, continueThen(p.v))

\* next, step, stepInstruction and halt return the promise of _makeCall as it is
nextPromise(p)            == p
\* (a step that raised on an exited state, as continueToNextBreakpoint does)
stepPromiseExitChecked(p) == Then(p, continueThen(p.v))

stepPromise(p)            == p
stepInstructionPromise(p) == p
haltPromise(p)            == p

\* (a lookup that wrapped the fault like every other operation)
findLocationsForArgsPromiseWrapped(locationArgs, p) ==
  CatchClass(p, "ServerError", wrapServerErr(p.v))

\* .catch(RPCError.ServerError, err => { throw new MalformedLocationError(locationArgs, err) })
findLocationsForArgsPromise(locationArgs, p) ==
  CatchClass(p, "ServerError",
             Throw(NewDelveError(DelveScope, "MalformedLocationError", locationArgs, p.v)))

\* () => null
returnNull(err) == Return(Null)

\* (a lookup by id without its .catch(() => null))
getBreakpointByIdPromiseNoCatch(p) == Then(p, decodeBreakpoint(p.v))

\* .then(bp => decodeBreakpoint(bp), false).catch(() => null)
getBreakpointByIdPromise(p) ==
  CatchAll(Then(p, decodeBreakpoint(p.v)), returnNull(Then(p, decodeBreakpoint(p.v)).v))
getBreakpointByNamePromise(p) ==
  CatchAll(Then(p, decodeBreakpoint(p.v)), returnNull(Then(p, decodeBreakpoint(p.v)).v))

\* rawBreakpoints.map(bp => decodeBreakpoint(bp))
decodeEach(rawBreakpoints) ==
  IF rawBreakpoints.t # "array"
    THEN Throw(TypeError("rawBreakpoints.map is not a function"))
  ELSE LET each == [k \in DOMAIN rawBreakpoints.v |-> decodeBreakpoint(rawBreakpoints.v[k])]
           bad  == {k \in DOMAIN each : each[k].c = "throw"}
       IN  IF bad = {}
             THEN Return(Arr([k \in DOMAIN each |-> each[k].v]))
             ELSE each[CHOOSE k \in bad : \A j \in bad : k <= j]

getBreakpointsPromise(p) == Then(p, decodeEach(p.v))

\* let cont = _cont || false
contOf(_cont) == JsOr(_cont, Bool(FALSE))

\* the mapper of createBreakpoints: the call it makes for one location
createCall(name, location, cont) ==
  _makeCall("CreateBreakpoint",
            Obj([name |-> name, addr |-> Get(location, "pc"), continue |-> cont]),
            Undefined)

\* .then(createdBp => decodeBreakpoint(createdBp)) on one create call
createdPromise(p) == Then(p, decodeBreakpoint(p.v))

\* (a map that returned the results in the order the calls completed)
mapPromiseByArrival(promise, parts, arrived) ==
  IF promise # Pending THEN promise
  ELSE IF \E k \in DOMAIN parts : parts[k].st = "rejected"
    THEN Rejected(parts[CHOOSE k \in DOMAIN parts : parts[k].st = "rejected"].v)
  ELSE IF \A k \in DOMAIN parts : parts[k].st = "fulfilled"
    THEN Fulfilled(Arr([j \in DOMAIN arrived |-> parts[arrived[j]].v]))
  ELSE Pending

\* Promise.map's result, given the promises of the elements and the order
\* `arrived` they settled in: the first rejection rejects it, the last
\* fulfilment fulfils it with the results in the order of the input
mapPromise(promise, parts, arrived) ==
  IF promise # Pending THEN promise
  ELSE IF \E k \in DOMAIN parts : parts[k].st = "rejected"
    THEN Rejected(parts[CHOOSE k \in DOMAIN parts : parts[k].st = "rejected"].v)
  ELSE IF \A k \in DOMAIN parts : parts[k].st = "fulfilled"
    THEN Fulfilled(Arr([k \in DOMAIN parts |-> parts[k].v]))
  ELSE Pending

\* the promise a single-call operation returned, once its call's promise is p
Settle(c, p) ==
  CASE c.op = "continueToNextBreakpoint" -> continueToNextBreakpointPromise(p)
    [] c.op = "next"                     -> nextPromise(p)
    [] c.op = "step"                     -> stepPromise(p)
    [] c.op = "stepInstruction"          -> stepInstructionPromise(p)
    [] c.op = "halt"                     -> haltPromise(p)
    [] c.op = "findLocationsForArgs"     -> findLocationsForArgsPromise(c.args[1], p)
    [] c.op = "getBreakpointById"        -> getBreakpointByIdPromise(p)
    [] c.op = "getBreakpointByName"      -> getBreakpointByNamePromise(p)
    [] c.op = "getBreakpoints"           -> getBreakpointsPromise(p)
    [] OTHER                             -> p

(***************************************************************************)
(* The state after `new Delve(host, port)`                                 *)
(***************************************************************************)
NotDecoded == [bp |-> Undefined, done |-> FALSE, out |-> Return(Undefined)]

Init ==
  /\ rpcClient = BasicHandle
  /\ sent = {}
  /\ calls = <<>>
  /\ decoded = NotDecoded
  /\ upgrades = <<>>

(***************************************************************************)
(* Public operations: each makes its call and returns a pending promise    *)
(***************************************************************************)
Invoke(op, args, rpc) ==
  /\ Len(calls) < MaxCalls
  /\ ~Crashed
  /\ calls' = Append(calls, Invocation(op, args))
  /\ sent' = sent \cup {Wire(Len(calls) + 1, 0, rpc)}
  /\ UNCHANGED <<rpcClient, decoded, upgrades>>

Command(name) == _makeCall("Command", Obj([name |-> Str(name)]), Undefined)

continueToNextBreakpoint ==
  Invoke("continueToNextBreakpoint", <<>>, Command(DebuggerCommands.continue))

next == Invoke("next", <<>>, Command(DebuggerCommands.next))

step == Invoke("step", <<>>, Command(DebuggerCommands.step))

stepInstruction ==
  Invoke("stepInstruction", <<>>, Command(DebuggerCommands.stepInstruction))

halt == Invoke("halt", <<>>, Command(DebuggerCommands.halt))

detachProcess(kill) ==
  Invoke("detachProcess", <<kill>>, _makeCall("Detach", JsOr(kill, Bool(FALSE)), Undefined))

\* the call findLocationsForArgs makes: it opts out of the wrapping with `false`
findLocationsCall(locationArgs, _scope) ==
  _makeCall("FindLocation",
            Obj([Scope |-> JsOr(_scope, makeScope(Num(-1), Num(0))), Loc |-> locationArgs]),
            Bool(FALSE))

findLocationsForArgs(locationArgs, _scope) ==
  Invoke("findLocationsForArgs", <<locationArgs, _scope>>,
         findLocationsCall(locationArgs, _scope))

createBreakpoints(name, locationStr, _cont) ==
  Invoke("createBreakpoints", <<name, locationStr, _cont>>,
         findLocationsCall(locationStr, Undefined))

clearBreakpointById(id) ==
  Invoke("clearBreakpointById", <<id>>, _makeCall("ClearBreakpoint", id, Undefined))

clearBreakpointByName(name) ==
  Invoke("clearBreakpointByName", <<name>>,
         _makeCall("ClearBreakpointByName", name, Undefined))

evalSymbol(symbol, goroutineId, frameId) ==
  Invoke("evalSymbol", <<symbol, goroutineId, frameId>>,
         _makeCall("EvalSymbol",
                   Obj([Scope |-> makeScope(goroutineId, frameId), Symbol |-> symbol]),
                   Undefined))

getRegisters == Invoke("getRegisters", <<>>, _makeCall("ListRegisters", Undefined, Undefined))

getBreakpoints ==
  Invoke("getBreakpoints", <<>>, _makeCall("ListBreakpoints", Undefined, Undefined))

getBreakpointById(id) ==
  Invoke("getBreakpointById", <<id>>, _makeCall("GetBreakpoint", id, Undefined))

getBreakpointByName(name) ==
  Invoke("getBreakpointByName", <<name>>, _makeCall("GetBreakpointByName", name, Undefined))

getThread(id) == Invoke("getThread", <<id>>, _makeCall("GetThread", id, Undefined))

\* the call getPackageVars makes: `if (threadId)` chooses the request
getPackageVarsCall(filter, threadId) ==
  IF Truthy(threadId)
    THEN _makeCall("ListThreadPackageVars", Obj([Id |-> threadId, Filter |-> filter]), Undefined)
    ELSE _makeCall("ListPackageVars", filter, Undefined)

getPackageVars(filter, threadId) ==
  Invoke("getPackageVars", <<filter, threadId>>, getPackageVarsCall(filter, threadId))

\* the names the body of setSymbol can resolve: its parameters, its local
\* and the top-level names of the module
setSymbolScope == DelveScope \cup {"symbol", "val", "goroutineId", "frameId", "Scope"}

\* {Scope, 'Symbol': symbol, Value: value}: reading an identifier no scope
\* binds throws a ReferenceError ('use strict' changes nothing for a read)
setSymbolArgs(symbol, val, goroutineId, frameId) ==
  IF "value" \in setSymbolScope
    THEN Return(Obj([Scope  |-> makeScope(goroutineId, frameId),
                     Symbol |-> symbol,
                     Value  |-> val]))
    ELSE Throw(ReferenceError("value is not defined"))

\* setSymbol: the argument object is evaluated before _makeCall is entered
setSymbol(symbol, val, goroutineId, frameId) ==
  LET a == setSymbolArgs(symbol, val, goroutineId, frameId)
      c == Invocation("setSymbol", <<symbol, val, goroutineId, frameId>>)
  IN  IF a.c = "return"
        THEN Invoke("setSymbol", c.args, _makeCall("SetSymbol", a.v, Undefined))
        ELSE /\ Len(calls) < MaxCalls
             /\ ~Crashed
             /\ calls' = Append(calls, [c EXCEPT !.promise = Threw(a.v)])
             /\ UNCHANGED <<rpcClient, sent, decoded, upgrades>>

(***************************************************************************)
(* The server: what it may answer to a call                                *)
(***************************************************************************)
ResultsFor(rpc) ==
  LET m == rpc.method[2] IN
  CASE m = "Command"          -> DebuggerStates
    [] m = "FindLocation"     -> LocationLists
    [] m = "CreateBreakpoint" ->
         {FullBp(Get(rpc.args, "addr"), Get(rpc.args, "name"), Get(rpc.args, "addr"))}
    [] m = "GetBreakpoint"    ->
         {FullBp(rpc.args, Str("bp1"), Num(1)), SparseBp(rpc.args, Str("bp1"), Num(1)), Null}
    [] m = "GetBreakpointByName" ->
         {FullBp(Num(1), rpc.args, Num(1)), SparseBp(Num(1), rpc.args, Num(1)), Null}
    [] m = "ListBreakpoints"  ->
         {EmptyArr, Arr(<<FullBp(Num(1), Str("bp1"), Num(1)), SparseBp(Num(2), Str(""), Num(2))>>)}
    [] m \in {"ClearBreakpoint", "ClearBreakpointByName"} ->
         {FullBp(Num(1), Str("bp1"), Num(1))}
    [] m = "EvalSymbol"       -> {Obj([name |-> Get(rpc.args, "Symbol"), value |-> Str("42")])}
    [] m = "Detach"           -> {Num(0)}
    [] m = "GetThread"        -> {Thread(rpc.args)}
    [] OTHER                  -> {Str("ok")}

(***************************************************************************)
(* A call's promise settles and the handlers chained on it run             *)
(***************************************************************************)
\* (a createBreakpoints that reported a failed lookup as a server error)
afterLookupRewrapped(c, F) ==
  IF F.st = "rejected"
    THEN [call  |-> [c EXCEPT !.promise =
                       Rejected(NewDelveError(DelveScope, "DelveServerError", F.v, Undefined))],
          issue |-> <<>>]
  ELSE IF F.v.t # "array"
    THEN [call  |-> [c EXCEPT !.promise = Rejected(TypeError("expecting an array"))],
          issue |-> <<>>]
  ELSE LET locs  == F.v.v
           parts == [k \in DOMAIN locs |-> Pending]
       IN  [call  |-> [c EXCEPT !.parts = parts, !.promise = mapPromise(Pending, parts, <<>>)],
            issue |-> [k \in DOMAIN locs |-> createCall(c.args[1], locs[k], contOf(c.args[3]))]]

\* createBreakpoints once its lookup has settled as F: a rejection is the
\* result, an array has one create call made for each of its elements
afterLookup(c, F) ==
  IF F.st = "rejected"
    THEN [call |-> [c EXCEPT !.promise = F], issue |-> <<>>]
  ELSE IF F.v.t # "array"
    THEN [call  |-> [c EXCEPT !.promise = Rejected(TypeError("expecting an array"))],
          issue |-> <<>>]
  ELSE LET locs  == F.v.v
           parts == [k \in DOMAIN locs |-> Pending]
       IN  [call  |-> [c EXCEPT !.parts = parts, !.promise = mapPromise(Pending, parts, <<>>)],
            issue |-> [k \in DOMAIN locs |-> createCall(c.args[1], locs[k], contOf(c.args[3]))]]

\* (a createBreakpoints that cleared the breakpoints already created when one
\* create call failed)
afterCreateRollback(c, k, p) ==
  LET parts   == [c.parts EXCEPT ![k] = createdPromise(p)]
      arrived == Append(c.arrived, k)
      created == {j \in DOMAIN parts : parts[j].st = "fulfilled"}
      undo    == IF p.st = "rejected" /\ created # {} THEN 1 ELSE 0
  IN  [call  |-> [c EXCEPT !.parts = parts, !.arrived = arrived,
                           !.promise = mapPromise(c.promise, parts, arrived)],
       issue |-> [j \in 1..undo |->
                    _makeCall("ClearBreakpoint",
                              Get(parts[CHOOSE x \in created : TRUE].v, "id"), Undefined)]]

\* createBreakpoints once the create call of its k-th location has settled as p
afterCreate(c, k, p) ==
  LET parts   == [c.parts EXCEPT ![k] = createdPromise(p)]
      arrived == Append(c.arrived, k)
  IN  [call  |-> [c EXCEPT !.parts = parts, !.arrived = arrived,
                           !.promise = mapPromise(c.promise, parts, arrived)],
       issue |-> <<>>]

\* the invocation after its call `w` settled as p, and the calls it then makes
Continue(c, w, p) ==
  IF c.op = "createBreakpoints"
    THEN IF w.slot = 0
           THEN afterLookup(c, findLocationsForArgsPromise(c.args[2], p))
           ELSE afterCreate(c, w.slot, p)
    ELSE [call |-> [c EXCEPT !.promise = Settle(c, p)], issue |-> <<>>]

\* the faults the server may report for a call
FaultsFor(rpc) == IF rpc.method[2] = "CreateBreakpoint" THEN {"internal error"} ELSE Faults

Deliver(w, out) ==
  LET rpc  == [w.rpc EXCEPT !.p = out,
                            !.derived = IF w.rpc.installed
                                          THEN derivedOf(w.rpc.wrapError, out)
                                          ELSE Pending]
      cont == Continue(calls[w.inv], w, returnedOf(w.rpc.wrapError, out))
  IN  /\ ~Crashed
      /\ calls' = [calls EXCEPT ![w.inv] = cont.call]
      /\ sent' = (sent \ {w}) \cup {[w EXCEPT !.rpc = rpc]} \cup
                 {Wire(w.inv, k, cont.issue[k]) : k \in DOMAIN cont.issue}
      /\ UNCHANGED <<rpcClient, decoded, upgrades>>

Outstanding == {w \in sent : w.rpc.p = Pending}

\* the server answers with a result
RpcResult(w) == \E x \in ResultsFor(w.rpc) : Deliver(w, Fulfilled(x))

\* the server reports a fault: json-rpc2 rejects with a ServerError
RpcFault(w) == \E f \in FaultsFor(w.rpc) : Deliver(w, Rejected(ServerError(f)))

\* the transport fails: the rejection is no ServerError
RpcTransportError(w) == Deliver(w, Rejected(TransportError))

Next ==
  \/ continueToNextBreakpoint
  \/ next
  \/ step
  \/ stepInstruction
  \/ halt
  \/ \E kill \in {Undefined, Bool(TRUE)} : detachProcess(kill)
  \/ \E l \in Patterns, sc \in {Undefined, makeScope(Num(1), Num(0))} :
       findLocationsForArgs(l, sc)
  \/ \E n \in BreakpointNames, l \in {Str("main.go:10")}, ct \in {Undefined, Bool(TRUE)} :
       createBreakpoints(n, l, ct)
  \/ \E id \in BreakpointIds : clearBreakpointById(id)
  \/ \E n \in BreakpointNames : clearBreakpointByName(n)
  \/ \E sym \in {Str("x")} : evalSymbol(sym, Num(1), Num(0))
  \/ getRegisters
  \/ getBreakpoints
  \/ \E id \in BreakpointIds : getBreakpointById(id)
  \/ \E n \in BreakpointNames : getBreakpointByName(n)
  \/ \E id \in ThreadIds : getThread(id)
  \/ \E f \in {Str("main")}, tid \in {Undefined, Num(0)} \cup ThreadIds : getPackageVars(f, tid)
  \/ \E sym \in {Str("x")}, val \in {Str("1")} : setSymbol(sym, val, Num(1), Num(0))
  \/ \E w \in Outstanding : RpcResult(w)
  \/ \E w \in Outstanding : RpcFault(w)
  \/ \E w \in Outstanding : RpcTransportError(w)

Spec == Init /\ [][Next]_vars

(***************************************************************************)
(* The transport upgrade: establishSocketConn and the socket it waits for  *)
(***************************************************************************)
\* an invocation of establishSocketConn: the handle connectSocketAsync was
\* called on, how the connection stands and the promise returned
Upgrade(on, st, promise) == [on |-> on, st |-> st, promise |-> promise]

\* conn => this.rpcClient = Promise.promisifyAll(conn)
assignHandle(conn) == Return(conn)

\* connectSocketAsync().then(conn => ...), p the promise of connectSocketAsync
establishSocketConnPromise(p) == Then(p, assignHandle(p.v))

\* (a handler that fell back to the first handle when the connection failed)
rpcClientAfterFallback(p) == IF p.st = "fulfilled" THEN p.v ELSE BasicHandle

\* this.rpcClient once connectSocketAsync settled as p: the handler that
\* assigns it runs on fulfilment only
rpcClientAfter(p) == IF p.st = "fulfilled" THEN p.v ELSE rpcClient

\* how rpcClient.connectSocketAsync() may start on the current handle: the
\* client of the constructor opens a socket; whether a socket connection
\* offers connectSocket is json-rpc2's matter, and when it does not the
\* property read is undefined and calling it throws
StartsOn(handle) ==
  {Upgrade(handle, "connecting", Pending)} \cup
  IF handle = BasicHandle
    THEN {}
    ELSE {Upgrade(handle, "threw", Threw(TypeError("connectSocketAsync is not a function")))}

establishSocketConn ==
  /\ Len(upgrades) < MaxUpgrades
  /\ ~Crashed
  /\ \E u \in StartsOn(rpcClient) : upgrades' = Append(upgrades, u)
  /\ UNCHANGED <<rpcClient, sent, calls, decoded>>

Connecting == {k \in DOMAIN upgrades : upgrades[k].st = "connecting"}

\* connectSocketAsync of the k-th invocation settles as p
SocketSettle(k, st, p) ==
  /\ ~Crashed
  /\ upgrades' = [upgrades EXCEPT ![k] = Upgrade(@.on, st, establishSocketConnPromise(p))]
  /\ rpcClient' = rpcClientAfter(p)
  /\ UNCHANGED <<sent, calls, decoded>>

\* the socket connected: the callback gets the connection
SocketReady(k) == SocketSettle(k, "ready", Fulfilled(SocketHandle(k)))

\* connectSocket reports an error to its callback
SocketError(k) == SocketSettle(k, "failed", Rejected(TransportError))

\* the socket emits an error nothing listens for: the process ends with the
\* promise still pending
SocketCrash(k) ==
  /\ ~Crashed
  /\ upgrades' = [upgrades EXCEPT ![k] = Upgrade(@.on, "crashed", Pending)]
  /\ UNCHANGED <<rpcClient, sent, calls, decoded>>

ConnNext ==
  \/ establishSocketConn
  \/ \E k \in Connecting : SocketReady(k)
  \/ \E k \in Connecting : SocketError(k)
  \/ \E k \in Connecting : SocketCrash(k)
  \/ getRegisters
  \/ \E id \in ThreadIds : getThread(id)
  \/ \E l \in {Str("main.go:10")} : findLocationsForArgs(l, Undefined)
  \/ \E w \in Outstanding : RpcResult(w)
  \/ \E w \in Outstanding : RpcFault(w)
  \/ \E w \in Outstanding : RpcTransportError(w)

ConnSpec == Init /\ [][ConnNext]_vars

(***************************************************************************)
(* decodeBreakpoint on its own: every payload the server may send          *)
(***************************************************************************)
\* the fields decodeBreakpoint does not default
RequiredFields == {"id", "name"}

\* the fields decodeBreakpoint defaults with ||
OptionalFields == {"functionName", "variables", "hitCount", "totalHitCount"}

\* a value of each field, and the empty value of its type the server may send
FieldValue(k, empty) ==
  CASE k = "id"            -> IF empty THEN Num(0) ELSE Num(7)
    [] k = "name"          -> IF empty THEN Str("") ELSE Str("bp1")
    [] k = "functionName"  -> IF empty THEN Str("") ELSE Str("main.main")
    [] k = "variables"     -> IF empty THEN EmptyArr ELSE Arr(<<Str("x")>>)
    [] k = "hitCount"      -> IF empty THEN EmptyObj ELSE Obj([g1 |-> Num(3)])
    [] k = "totalHitCount" -> IF empty THEN Num(0) ELSE Num(3)

\* the fields every payload carries
CommonFields ==
  [addr |-> Num(4198), file |-> Str("main.go"), line |-> Num(10), Cond |-> Str("x > 1"),
   continue |-> Bool(TRUE), goroutine |-> Bool(FALSE), stacktrace |-> Num(2)]

\* a payload with the fields `present`, those of `empty` holding an empty value
Payload(present, empty) ==
  Obj([k \in DOMAIN CommonFields \cup present |->
         IF k \in present THEN FieldValue(k, k \in empty) ELSE CommonFields[k]])

Payloads ==
  {Payload(present, empty) :
     present \in SUBSET (RequiredFields \cup OptionalFields),
     empty \in SUBSET OptionalFields} \cup {Null, Undefined}

DecodeInit ==
  /\ rpcClient = BasicHandle
  /\ sent = {}
  /\ calls = <<>>
  /\ \E bp \in Payloads : decoded = [bp |-> bp, done |-> FALSE, out |-> Return(Undefined)]
  /\ upgrades = <<>>

\* types.Breakpoint.decodeBreakpoint(bp)
DecodeBreakpoint ==
  /\ ~decoded.done
  /\ decoded' = [decoded EXCEPT !.done = TRUE, !.out = decodeBreakpoint(decoded.bp)]
  /\ UNCHANGED <<rpcClient, sent, calls, upgrades>>

DecodeNext == DecodeBreakpoint

DecodeSpec == DecodeInit /\ [][DecodeNext]_vars

(***************************************************************************)
(* Properties                                                              *)
(***************************************************************************)
\* the invocations of the operations `ops`
CallsOf(ops) == {i \in DOMAIN calls : calls[i].op \in ops}

\* the call of invocation i at place k, and whether it was made
Made(i, k)   == \E w \in sent : w.inv = i /\ w.slot = k
WireOf(i, k) == CHOOSE w \in sent : w.inv = i /\ w.slot = k

\* the promise of invocation i's first call
FirstP(i) == WireOf(i, 0).rpc.p

\* the server reported a fault for invocation i's first call
Faulted(i) == FirstP(i).st = "rejected" /\ IsErr(FirstP(i).v, "ServerError")

\* the operations that return the promise of _makeCall with nothing of their
\* own to translate a fault
WrappingOps ==
  {"clearBreakpointById", "clearBreakpointByName", "evalSymbol", "getRegisters",
   "detachProcess", "continueToNextBreakpoint", "next", "step", "stepInstruction",
   "halt", "getBreakpoints"}

\* C1 (as claimed): whenever the server reports a fault for the call of one of
\* these operations, the promise returned to the caller rejects with a
\* DelveServerError whose `error` is the original fault, never the raw ServerError.
C1_FaultIsWrapped ==
  \A i \in CallsOf(WrappingOps) :
    Faulted(i) =>
      /\ calls[i].promise.st = "rejected"
      /\ IsErr(calls[i].promise.v, "DelveServerError")
      /\ ErrGet(calls[i].promise.v, "error") = FirstP(i).v

\* C2 (as claimed): findLocations on a server fault rejects with a
\* MalformedLocationError whose `locationArg` is the pattern and which carries the fault.
C2_LocationArgField ==
  \A i \in CallsOf({"findLocationsForArgs"}) :
    Faulted(i) =>
      /\ calls[i].promise.st = "rejected"
      /\ IsErr(calls[i].promise.v, "MalformedLocationError")
      /\ ErrGet(calls[i].promise.v, "locationArg") = calls[i].args[1]
      /\ ErrGet(calls[i].promise.v, "error") = FirstP(i).v

\* C2 (amended): findLocations on a server fault rejects with a
\* MalformedLocationError (not a ServerError) whose message is "Invalid location
\* pattern: " followed by the pattern and whose `error` is the fault; the error
\* has no `locationArg` field.
C2_PatternInMessage ==
  \A i \in CallsOf({"findLocationsForArgs"}) :
    Faulted(i) =>
      /\ calls[i].promise.st = "rejected"
      /\ IsErr(calls[i].promise.v, "MalformedLocationError")
      /\ calls[i].promise.v.v.message = <<"Invalid location pattern: ", calls[i].args[1]>>
      /\ ErrGet(calls[i].promise.v, "error") = FirstP(i).v
      /\ ErrGet(calls[i].promise.v, "locationArg") = Undefined

\* findLocations("bad::pattern") was rejected by the server and has settled
C2_Witness ==
  \E i \in CallsOf({"findLocationsForArgs"}) :
    /\ calls[i].args[1] = Str("bad::pattern")
    /\ Faulted(i)
    /\ calls[i].promise.st = "rejected"

GetOps == {"getBreakpointById", "getBreakpointByName"}

NotFound == ServerError("not found")

\* C3 (as claimed): getBreakpointById/ByName turn only the "not found" fault into
\* null; any other fault, a transport failure or a payload that cannot be decoded
\* rejects the promise, a server fault as a DelveServerError.
C3_OnlyNotFoundIsNull ==
  \A i \in CallsOf(GetOps) :
    /\ (FirstP(i).st = "rejected" /\ FirstP(i).v # NotFound) =>
         /\ calls[i].promise.st = "rejected"
         /\ Faulted(i) => IsErr(calls[i].promise.v, "DelveServerError")
    /\ (FirstP(i).st = "fulfilled" /\ Nullish(FirstP(i).v)) =>
         calls[i].promise.st = "rejected"

\* C4: when the server reports "not found" the promise resolves to null, and when
\* it returns a breakpoint payload the promise resolves to the breakpoint decoded
\* from that payload.
C4_NotFoundIsNull ==
  \A i \in CallsOf(GetOps) :
    /\ FirstP(i) = Rejected(NotFound) => calls[i].promise = Fulfilled(Null)
    /\ (FirstP(i).st = "fulfilled" /\ ~Nullish(FirstP(i).v)) =>
         /\ calls[i].promise.st = "fulfilled"
         /\ calls[i].promise.v.t = "object"
         /\ Get(calls[i].promise.v, "id") = Get(FirstP(i).v, "id")
         /\ Get(calls[i].promise.v, "name") = Get(FirstP(i).v, "name")
         /\ Get(Get(calls[i].promise.v, "location"), "addr") = Get(FirstP(i).v, "addr")

\* getBreakpointById(999) was answered "not found" and resolved to null
C4_Witness ==
  \E i \in CallsOf({"getBreakpointById"}) :
    /\ calls[i].args[1] = Num(999)
    /\ FirstP(i) = Rejected(NotFound)
    /\ calls[i].promise = Fulfilled(Null)

\* C5 (as claimed): continueToNextBreakpoint rejects with a DebuggerExited error
\* carrying the state and its exit status when the returned state has exited,
\* and resolves to the state unchanged otherwise.
C5_ExitedRaisesDebuggerExited ==
  \A i \in CallsOf({"continueToNextBreakpoint"}) :
    FirstP(i).st = "fulfilled" =>
      IF Truthy(Get(FirstP(i).v, "exited"))
        THEN /\ calls[i].promise.st = "rejected"
             /\ IsErr(calls[i].promise.v, "DebuggerExited")
             /\ ErrGet(calls[i].promise.v, "exitStatus") = Get(FirstP(i).v, "exitStatus")
        ELSE calls[i].promise = FirstP(i)

StepOps == {"step", "next", "stepInstruction", "halt"}

\* C6: step, next, stepInstruction and halt resolve to exactly the state the
\* server returned, an exited one included, and never reject when the server
\* returned a state.
C6_StepPassesStateThrough ==
  \A i \in CallsOf(StepOps) :
    FirstP(i).st = "fulfilled" => calls[i].promise = Fulfilled(FirstP(i).v)

\* step() was answered with an exited state and resolved to it
C6_Witness ==
  \E i \in CallsOf({"step"}) :
    /\ FirstP(i) = Fulfilled(ExitedState(2))
    /\ calls[i].promise = Fulfilled(ExitedState(2))

\* whether a payload carries the field k
Has(bp, k) == bp.t = "object" /\ k \in DOMAIN bp.v

\* a payload with the fields a breakpoint must have
ValidPayload(bp) == Has(bp, "id") /\ Has(bp, "name")

\* where decodeBreakpoint puts the field k of the payload
Decoded(b, k) == IF k = "functionName" THEN Get(Get(b, "location"), k) ELSE Get(b, k)

\* C7 (as claimed): for a valid payload, decodeBreakpoint yields functionName =
\* null, variables = [], hitCount = {} and totalHitCount = 0 for the fields the
\* payload omits, and copies every field it carries unchanged.
C7_DefaultsForOmittedFields ==
  (decoded.done /\ ValidPayload(decoded.bp)) =>
    /\ decoded.out.c = "return"
    /\ ~Has(decoded.bp, "functionName") => Decoded(decoded.out.v, "functionName") = Null
    /\ ~Has(decoded.bp, "variables") => Decoded(decoded.out.v, "variables") = EmptyArr
    /\ ~Has(decoded.bp, "hitCount") => Decoded(decoded.out.v, "hitCount") = EmptyObj
    /\ ~Has(decoded.bp, "totalHitCount") => Decoded(decoded.out.v, "totalHitCount") = Num(0)
    /\ \A k \in RequiredFields \cup OptionalFields :
         Has(decoded.bp, k) => Decoded(decoded.out.v, k) = Get(decoded.bp, k)

\* C8 (as claimed): decoding a payload in which id or name is absent or malformed
\* fails with a MalformedBreakpointError, and no breakpoint is returned whose id
\* or name is undefined.
C8_MissingIdOrNameFails ==
  decoded.done =>
    /\ (decoded.bp.t = "object" /\ ~ValidPayload(decoded.bp)) =>
         decoded.out.c = "throw" /\ IsErr(decoded.out.v, "MalformedBreakpointError")
    /\ decoded.out.c = "return" =>
         Get(decoded.out.v, "id") # Undefined /\ Get(decoded.out.v, "name") # Undefined

\* the create calls of invocation i
CreateWires(i) == {w \in sent : w.inv = i /\ w.slot >= 1}

\* the locations invocation i's lookup resolved to
Resolved(i) == FirstP(i).v.v

\* C9: createBreakpoints first makes the FindLocation call for the pattern; once
\* that has resolved it makes exactly one CreateBreakpoint call for each resolved
\* location, with that location's address, the given name and the tracepoint flag
\* (false when not given), and none before; it resolves to the breakpoints decoded
\* from the answers in the order of the resolved locations, whatever order the
\* create calls completed in.
C9_OneCreatePerLocationInOrder ==
  \A i \in CallsOf({"createBreakpoints"}) :
    /\ Made(i, 0)
    /\ WireOf(i, 0).rpc.method = <<"RPCServer", "FindLocation">>
    /\ Get(WireOf(i, 0).rpc.args, "Loc") = calls[i].args[2]
    /\ FirstP(i).st # "fulfilled" => CreateWires(i) = {}
    /\ FirstP(i).st = "fulfilled" =>
         /\ Cardinality(CreateWires(i)) = Len(Resolved(i))
         /\ \A k \in 1..Len(Resolved(i)) :
              /\ Made(i, k)
              /\ WireOf(i, k).rpc.method = <<"RPCServer", "CreateBreakpoint">>
              /\ WireOf(i, k).rpc.args =
                   Obj([name     |-> calls[i].args[1],
                        addr     |-> Get(Resolved(i)[k], "pc"),
                        continue |-> IF calls[i].args[3] = Undefined
                                       THEN Bool(FALSE) ELSE calls[i].args[3]])
         /\ calls[i].promise.st = "fulfilled" =>
              /\ calls[i].promise.v.t = "array"
              /\ Len(calls[i].promise.v.v) = Len(Resolved(i))
              /\ \A k \in 1..Len(Resolved(i)) :
                   /\ WireOf(i, k).rpc.p.st = "fulfilled"
                   /\ calls[i].promise.v.v[k] = newBreakpoint(WireOf(i, k).rpc.p.v)
                   /\ Get(Get(calls[i].promise.v.v[k], "location"), "addr") =
                        Get(Resolved(i)[k], "pc")

\* createBreakpoints("bp1", "main.go:10") resolved two locations, the create
\* call of the second completed before that of the first, and it resolved
C9_Witness ==
  \E i \in CallsOf({"createBreakpoints"}) :
    /\ calls[i].args[1] = Str("bp1")
    /\ calls[i].arrived = <<2, 1>>
    /\ calls[i].promise.st = "fulfilled"
    /\ Get(calls[i].promise.v.v[1], "name") = Str("bp1")

\* C10: if a CreateBreakpoint call of createBreakpoints fails, the promise
\* rejects with the error of the first call that failed, and the invocation makes
\* no call but its FindLocation and CreateBreakpoint calls: nothing is cleared.
C10_NoRollback ==
  \A i \in CallsOf({"createBreakpoints"}) :
    /\ \A w \in sent :
         w.inv = i => w.rpc.method[2] \in {"FindLocation", "CreateBreakpoint"}
    /\ (\E w \in CreateWires(i) : w.rpc.p.st = "rejected") =>
         /\ calls[i].promise.st = "rejected"
         /\ \E j \in DOMAIN calls[i].arrived :
              /\ WireOf(i, calls[i].arrived[j]).rpc.p = calls[i].promise
              /\ \A h \in 1..(j - 1) :
                   WireOf(i, calls[i].arrived[h]).rpc.p.st = "fulfilled"

\* one breakpoint was created, then the create call of another location failed
C10_Witness ==
  \E i \in CallsOf({"createBreakpoints"}) :
    /\ Len(calls[i].arrived) = 2
    /\ WireOf(i, calls[i].arrived[1]).rpc.p.st = "fulfilled"
    /\ WireOf(i, calls[i].arrived[2]).rpc.p.st = "rejected"
    /\ calls[i].promise.st = "rejected"

(***************************************************************************)
(* C11: getThread(id) for an id the server does not know (the server       *)
(* answers the call with the fault "not found") resolves to null and does  *)
(* not reject; for a known id it resolves to the thread record the server  *)
(* returned.                                                               *)
(***************************************************************************)
C11_UnknownThreadIsNull ==
  \A i \in CallsOf({"getThread"}) :
    /\ (Faulted(i) /\ FirstP(i).v = NotFound) => calls[i].promise = Fulfilled(Null)
    /\ FirstP(i).st = "fulfilled" => calls[i].promise = FirstP(i)

(***************************************************************************)
(* C12: the transport starts on the basic handle and can only move to an   *)
(* upgraded one, which establishSocketConn's socket supplies when it is    *)
(* ready; once the handle has been replaced it is never the basic handle   *)
(* again; and the public operations can be invoked, and make their call on *)
(* the current handle, in both states.                                     *)
(***************************************************************************)
HandleIsBasicOrReadySocket ==
  \/ rpcClient = BasicHandle /\ ~Upgraded
  \/ \E k \in DOMAIN upgrades : upgrades[k].st = "ready" /\ rpcClient = SocketHandle(k)

CallableInBothStates ==
  (~Crashed /\ Len(calls) < MaxCalls) =>
    /\ ENABLED getRegisters
    /\ ENABLED getThread(Num(7))
    /\ ENABLED findLocationsForArgs(Str("main.go:10"), Undefined)

C12_UpgradeIsOneWay ==
  /\ [](HandleIsBasicOrReadySocket /\ CallableInBothStates)
  /\ [][rpcClient # BasicHandle => rpcClient' # BasicHandle]_vars
  /\ [][\A w \in sent' : ~Made(w.inv, w.slot) => w.rpc.handle = rpcClient]_vars

\* an operation invoked on the upgraded handle got its result, and a later
\* connection that failed left the upgraded handle in place
C12_Witness ==
  /\ rpcClient # BasicHandle
  /\ \E k \in DOMAIN upgrades : upgrades[k].st = "failed"
  /\ \E w \in sent : w.rpc.handle = rpcClient /\ w.rpc.p.st = "fulfilled"

(***************************************************************************)
(* C13: when establishSocketConn runs beside other calls no call is lost   *)
(* and none is sent on a stale handle.  The handle is replaced in one step *)
(* that touches no call; a call made after an upgrade completed is sent on *)
(* an upgraded handle; a call made before is sent once, on the basic       *)
(* handle, its reply can still arrive after the handle was replaced, and   *)
(* the reply settles the promise the caller holds (while the process       *)
(* lives).                                                                 *)
(***************************************************************************)
SentOnceOnTheHandleOfItsTime ==
  /\ \A i \in DOMAIN calls : Cardinality({w \in sent : w.inv = i}) = 1
  /\ \A w \in sent :
       IF w.upgraded
         THEN \E k \in DOMAIN upgrades :
                upgrades[k].st = "ready" /\ w.rpc.handle = SocketHandle(k)
         ELSE w.rpc.handle = BasicHandle

ReplyReachesCaller ==
  \A w \in sent :
    /\ (w.rpc.p = Pending /\ ~Crashed) => ENABLED RpcResult(w)
    /\ w.rpc.p # Pending => calls[w.inv].promise # Pending
    /\ (w.rpc.p.st = "fulfilled" /\ calls[w.inv].op \in {"getRegisters", "getThread"})
         => calls[w.inv].promise = w.rpc.p

C13_NoLostOrStaleCall ==
  /\ [](SentOnceOnTheHandleOfItsTime /\ ReplyReachesCaller)
  /\ [][rpcClient' # rpcClient =>
          /\ sent' = sent /\ calls' = calls
          /\ \E k \in Connecting : upgrades'[k].st = "ready" /\ rpcClient' = SocketHandle(k)]_vars

\* a call made on the basic handle is still in flight when the handle has
\* been replaced
C13_Witness ==
  /\ rpcClient # BasicHandle
  /\ \E w \in Outstanding : ~w.upgraded /\ w.rpc.handle = BasicHandle

(***************************************************************************)
(* C14: at most one transport upgrade is in flight at any time: an         *)
(* establishSocketConn invoked while an earlier one is pending, or after   *)
(* one has completed, starts no second socket connection.                  *)
(***************************************************************************)
C14_OneUpgradeInFlight ==
  /\ Cardinality(Connecting) <= 1
  /\ \A k \in DOMAIN upgrades : upgrades[k].on # BasicHandle => upgrades[k].st = "threw"

(***************************************************************************)
(* C15: no public operation retries.  Each invocation of a single-call     *)
(* operation sends its RPC exactly once (createBreakpoints: one            *)
(* FindLocation, then one CreateBreakpoint for each location found and     *)
(* nothing else), and a failed RPC is surfaced to the caller, whose        *)
(* promise rejects (the documented not-found answers aside), without       *)
(* being sent again.                                                       *)
(***************************************************************************)
WiresAt(i, k) == {w \in sent : w.inv = i /\ w.slot = k}

LocationsFound(i) ==
  IF Made(i, 0) /\ FirstP(i).st = "fulfilled" /\ FirstP(i).v.t = "array"
       /\ calls[i].op = "createBreakpoints"
    THEN Len(FirstP(i).v.v)
    ELSE 0

C15_EachRpcSentOnce ==
  \A i \in DOMAIN calls :
    /\ Cardinality(WiresAt(i, 0)) = 1
    /\ \A k \in 1..LocationsFound(i) : Cardinality(WiresAt(i, k)) = 1
    /\ \A w \in sent : w.inv = i => w.slot \in 0..LocationsFound(i)
    /\ \A w \in sent :
         (/\ w.inv = i
          /\ w.rpc.p.st = "rejected"
          /\ ~(calls[i].op \in GetOps \cup {"getThread"} /\ w.rpc.p.v = NotFound))
         => calls[i].promise.st = "rejected"

\* the part of C15 about sending alone, for every operation that gets as far
\* as its call
C15_NeverSentAgain ==
  \A i \in DOMAIN calls :
    calls[i].promise.st # "threw" =>
      /\ Cardinality(WiresAt(i, 0)) = 1
      /\ \A k \in 1..LocationsFound(i) : Cardinality(WiresAt(i, k)) = 1
      /\ \A w \in sent : w.inv = i => w.slot \in 0..LocationsFound(i)

(***************************************************************************)
(* C16: getPackageVars(filter, threadId): whenever a threadId is given,    *)
(* whatever its value (0 included), the request is ListThreadPackageVars   *)
(* with that id and the filter; only when threadId is omitted is the       *)
(* process-wide ListPackageVars issued.                                    *)
(***************************************************************************)
C16_ThreadIdSelectsThreadScope ==
  \A i \in CallsOf({"getPackageVars"}) :
    LET filter   == calls[i].args[1]
        threadId == calls[i].args[2]
        rpc      == WireOf(i, 0).rpc
    IN  IF threadId # Undefined
          THEN /\ rpc.method = <<methodPrefix, "ListThreadPackageVars">>
               /\ rpc.args = Obj([Id |-> threadId, Filter |-> filter])
          ELSE /\ rpc.method = <<methodPrefix, "ListPackageVars">>
               /\ rpc.args = filter

(***************************************************************************)
(* C17: setSymbol(expr, value, contextId, frameIndex) issues one SetSymbol *)
(* call whose Value is the given value and whose Scope is (contextId,      *)
(* frameIndex) and returns the pending result; it never fails              *)
(* synchronously before the call is issued.                                *)
(***************************************************************************)
C17_SetSymbolIssuesCall ==
  \A i \in CallsOf({"setSymbol"}) :
    /\ calls[i].promise.st # "threw"
    /\ Cardinality({w \in sent : w.inv = i}) = 1
    /\ Made(i, 0)
    /\ WireOf(i, 0).rpc.method = <<methodPrefix, "SetSymbol">>
    /\ Get(WireOf(i, 0).rpc.args, "Value") = calls[i].args[2]
    /\ Get(WireOf(i, 0).rpc.args, "Scope") = makeScope(calls[i].args[3], calls[i].args[4])

(***************************************************************************)
(* C18: the call primitive applies the ServerError wrapping if and only if *)
(* the caller did not opt out: _makeCall(method, args, false) installs no  *)
(* DelveServerError translation, _makeCall(method, args) and               *)
(* _makeCall(method, args, true) install it.                               *)
(***************************************************************************)
C18_OptOutInstallsNoWrapping ==
  \A w \in sent : w.rpc.installed <=> (w.rpc.given # Bool(FALSE))

(***************************************************************************)
(* C19: in createBreakpoints, when the location lookup fails no            *)
(* CreateBreakpoint call is ever issued and the returned promise rejects   *)
(* with the lookup's own rejection, the MalformedLocationError for a fault *)
(* the server reported, not wrapped again as a server error; a             *)
(* CreateBreakpoint call exists only once the lookup has resolved.         *)
(***************************************************************************)
C19_FailedLookupCreatesNothing ==
  \A i \in CallsOf({"createBreakpoints"}) :
    /\ CreateWires(i) # {} => (FirstP(i).st = "fulfilled" /\ FirstP(i).v.t = "array")
    /\ FirstP(i).st = "rejected" =>
         /\ CreateWires(i) = {}
         /\ calls[i].promise = findLocationsForArgsPromise(calls[i].args[2], FirstP(i))
         /\ ~IsErr(calls[i].promise.v, "DelveServerError")
    /\ Faulted(i) =>
         calls[i].promise =
           Rejected(MalformedLocationError(calls[i].args[2], FirstP(i).v))

\* the lookup of a createBreakpoints was answered with a fault and the
\* promise is rejected with the MalformedLocationError
C19_Witness ==
  \E i \in CallsOf({"createBreakpoints"}) :
    /\ Faulted(i)
    /\ IsErr(calls[i].promise.v, "MalformedLocationError")
    /\ CreateWires(i) = {}

(***************************************************************************)
(* C20: when the transport upgrade fails the promise establishSocketConn   *)
(* returned rejects and the handle is left as it was, so later calls are   *)
(* still sent on it; the handle is replaced only when the upgraded         *)
(* connection is ready.                                                    *)
(***************************************************************************)
UpgradeFailed(k) == upgrades[k].st \in {"failed", "crashed"}

C20_FailedUpgradeRejects ==
  /\ [](\A k \in DOMAIN upgrades : UpgradeFailed(k) => upgrades[k].promise.st = "rejected")
  /\ [][\A k \in Connecting : UpgradeFailed(k)' => rpcClient' = rpcClient]_vars
  /\ [][rpcClient' # rpcClient =>
          \E k \in Connecting : upgrades'[k].st = "ready" /\ rpcClient' = SocketHandle(k)]_vars

\* the part of C20 about the handle alone
C20_FailedUpgradeKeepsHandle ==
  /\ [][\A k \in Connecting : UpgradeFailed(k)' => rpcClient' = rpcClient]_vars
  /\ [][rpcClient' # rpcClient =>
          \E k \in Connecting : upgrades'[k].st = "ready" /\ rpcClient' = SocketHandle(k)]_vars
  /\ [](\A k \in DOMAIN upgrades : upgrades[k].st = "failed" => upgrades[k].promise.st = "rejected")

(***************************************************************************)
(* C21: each failed RPC produces exactly one rejection, the one delivered  *)
(* on the promise returned to the caller: the call primitive leaves behind *)
(* no further rejected promise that no caller holds and no handler         *)
(* observes.                                                               *)
(***************************************************************************)
C21_NoOrphanedRejection ==
  \A w \in sent :
    w.rpc.p.st = "rejected" =>
      /\ returnedOf(w.rpc.wrapError, w.rpc.p) = w.rpc.p
      /\ w.rpc.derived.st # "rejected"

====
